---- MODULE Spec2Model ----
(***************************************************************************)
(* Model of the Wayland client in src/src/main.rs: the AppState session,   *)
(* the Dispatch handlers of every object type, the main loop and draw().   *)
(* The requests the client sends are kept in the sequence `requests`, the  *)
(* events the event queue has dispatched in `hist`.                        *)
(***************************************************************************)
EXTENDS Integers, Sequences, FiniteSets, TLC

VARIABLES
  running,       \* AppState.running
  base_surface,  \* AppState.base_surface : Option<WlSurface>
  buffer,        \* AppState.buffer       : Option<WlBuffer>
  wm_base,       \* AppState.wm_base      : Option<XdgWmBase>
  xdg_surface,   \* AppState.xdg_surface  : Option<(XdgSurface, XdgToplevel)>
  configured,    \* AppState.configured
  pc,            \* position of main(): "check", "dispatch", "done", "panic"
  requests,      \* requests sent to the server, in order
  hist,          \* events dispatched to the handlers, in order
  stdout,        \* lines printed by println!
  args,          \* (buf_x, buf_y) given to draw
  tmp,           \* bytes of the file draw writes to
  limit          \* number of events the server sends in this run

vars == <<running, base_surface, buffer, wm_base, xdg_surface, configured,
          pc, requests, hist, stdout, args, tmp, limit>>

session == <<running, base_surface, buffer, wm_base, xdg_surface, configured>>

\* ------------------------------------------------------------------ bounds
MaxEvents == 5
MaxSerial == 2
MaxDim == 7
MaxKey == 2
MaxLiveEvents == 4

\* --------------------------------------------------------------- constants
QuitKey == 1
initial_width == 320
initial_height == 240

Serials == 1..MaxSerial
Keys == 1..MaxKey
Dims == 0..MaxDim

\* Option<T>: None is the empty set, Some(v) the singleton.
None == {}
Some(v) == {v}
IsSome(o) == o # {}
Unwrap(o) == CHOOSE v \in o : TRUE

\* u32 arithmetic and the `as i32` cast.  Every value the model computes stays
\* below 2^31 (TLC stops with an overflow error otherwise), where a u32 does
\* not wrap and the cast keeps the value.
I32Max == 2147483647
U32(n) == n
I32(n) == IF n <= I32Max THEN n ELSE n - I32Max - I32Max - 2
U8(n) == n % 256
Min(a, b) == IF a <= b THEN a ELSE b

\* ------------------------------------------------------- request log tools
Idx(kind) == {i \in 1..Len(requests) : requests[i].req = kind}
Num(kind) == Cardinality(Idx(kind))
NumIn(reqs, kind) == Cardinality({i \in 1..Len(reqs) : reqs[i].req = kind})
Binds(reqs, iface) ==
  {i \in 1..Len(reqs) : reqs[i].req = "bind" /\ reqs[i].interface = iface}

\* Proxies the client holds: an event can only be dispatched on one of them.
Seats == 1..Cardinality(Binds(requests, "wl_seat"))
WmBases == 1..Cardinality(Binds(requests, "xdg_wm_base"))
Keyboards == 1..Num("get_keyboard")
XdgSurfaces == 1..Num("get_xdg_surface")
Toplevels == 1..Num("get_toplevel")

\* ------------------------------------------------------------------- draw
Pixel_NoAlpha(x, y, buf_x, buf_y) ==
  LET r == Min(U32((buf_x - x) * 255) \div buf_x, U32((buf_y - y) * 255) \div buf_y)
      g == Min(U32(x * 255) \div buf_x, U32((buf_y - y) * 255) \div buf_y)
      b == Min(U32((buf_x - x) * 255) \div buf_x, U32(y * 255) \div buf_y)
  IN  <<U8(b), U8(g), U8(r)>>

Pixel(x, y, buf_x, buf_y) ==
  LET a == 255
      r == Min(U32((buf_x - x) * 255) \div buf_x, U32((buf_y - y) * 255) \div buf_y)
      g == Min(U32(x * 255) \div buf_x, U32((buf_y - y) * 255) \div buf_y)
      b == Min(U32((buf_x - x) * 255) \div buf_x, U32(y * 255) \div buf_y)
  IN  <<U8(b), U8(g), U8(r), U8(a)>>

RECURSIVE DrawRow(_, _, _, _)
DrawRow(x, y, buf_x, buf_y) ==
  IF x >= buf_x THEN <<>>
  ELSE Pixel(x, y, buf_x, buf_y) \o DrawRow(x + 1, y, buf_x, buf_y)

RECURSIVE DrawRows(_, _, _)
DrawRows(y, buf_x, buf_y) ==
  IF y >= buf_y THEN <<>>
  ELSE DrawRow(0, y, buf_x, buf_y) \o DrawRows(y + 1, buf_x, buf_y)

draw(file, buf_x, buf_y) == file \o DrawRows(0, buf_x, buf_y)

\* Number of bytes draw writes: buf_y turns of the outer loop, buf_x turns of
\* the inner loop in each, one write_all of 4 bytes in each of those.
draw_len(buf_x, buf_y) ==
  Cardinality(0..(buf_y - 1)) * (Cardinality(0..(buf_x - 1)) * 4)

\* ------------------------------------------------------- init_xdg_surface
init_xdg_surface_CommitFirst(reqs, wm, bs) ==
  IF wm = None \/ bs = None
  THEN [panic |-> TRUE, requests |-> reqs, xdg_surface |-> None]
  ELSE LET xid == NumIn(reqs, "get_xdg_surface") + 1
           tid == NumIn(reqs, "get_toplevel") + 1
       IN [panic |-> FALSE,
           requests |-> reqs \o
             << [req |-> "get_xdg_surface", wm_base |-> Unwrap(wm),
                 surface |-> Unwrap(bs), id |-> xid],
                [req |-> "get_toplevel", xdg_surface |-> xid, id |-> tid],
                [req |-> "commit", surface |-> Unwrap(bs)],
                [req |-> "set_title", toplevel |-> tid, title |-> "receba"],
                [req |-> "set_app_id", toplevel |-> tid,
                 app_id |-> "EstamosAquiDaSilva.org"] >>,
           xdg_surface |-> Some(<<xid, tid>>)]

init_xdg_surface(reqs, wm, bs) ==
  IF wm = None \/ bs = None
  THEN [panic |-> TRUE, requests |-> reqs, xdg_surface |-> None]
  ELSE LET xid == NumIn(reqs, "get_xdg_surface") + 1
           tid == NumIn(reqs, "get_toplevel") + 1
       IN [panic |-> FALSE,
           requests |-> reqs \o
             << [req |-> "get_xdg_surface", wm_base |-> Unwrap(wm),
                 surface |-> Unwrap(bs), id |-> xid],
                [req |-> "get_toplevel", xdg_surface |-> xid, id |-> tid],
                [req |-> "set_title", toplevel |-> tid, title |-> "receba"],
                [req |-> "set_app_id", toplevel |-> tid,
                 app_id |-> "EstamosAquiDaSilva.org"],
                [req |-> "commit", surface |-> Unwrap(bs)] >>,
           xdg_surface |-> Some(<<xid, tid>>)]

\* ------------------------------------------------------------------- main
Init ==
  /\ running = TRUE
  /\ base_surface = None
  /\ buffer = None
  /\ wm_base = None
  /\ xdg_surface = None
  /\ configured = FALSE
  /\ pc = "check"
  /\ requests = << [req |-> "get_registry"] >>
  /\ hist = <<>>
  /\ stdout = <<>>
  /\ args = <<0, 0>>
  /\ tmp = <<>>
  /\ limit = MaxEvents

\* while app_state.running { event_queue.blocking_dispatch(..) }
LoopEnter_Always ==
  /\ pc = "check"
  /\ pc' = "dispatch"
  /\ UNCHANGED <<session, requests, hist, stdout, args, tmp, limit>>

LoopEnter ==
  /\ pc = "check"
  /\ running
  /\ pc' = "dispatch"
  /\ UNCHANGED <<session, requests, hist, stdout, args, tmp, limit>>

LoopExit ==
  /\ pc = "check"
  /\ ~running
  /\ pc' = "done"
  /\ UNCHANGED <<session, requests, hist, stdout, args, tmp, limit>>

\* blocking_dispatch hands the buffered events to the handlers one by one and
\* returns when the buffer is empty, at the latest after the last event of
\* the run; `panicked` is a failed unwrap.
Dispatched(ev, panicked) ==
  /\ hist' = Append(hist, ev)
  /\ IF panicked THEN pc' = "panic"
     ELSE IF Len(hist) + 1 < limit THEN pc' \in {"dispatch", "check"}
     ELSE pc' = "check"

CanDispatch == pc = "dispatch" /\ Len(hist) < limit

\* ------------------------------------------ Dispatch<WlRegistry>::event
\* if state.wm_base.is_some() && state.xdg_surface.is_none()
CompositorArmGuard_Never == FALSE
CompositorArmGuard_NoWmCheck == xdg_surface = None
CompositorArmGuard == wm_base # None /\ xdg_surface = None

\* if state.base_surface.is_some() && state.xdg_surface.is_none()
WmBaseArmGuard_NoRoleCheck == base_surface # None
WmBaseArmGuard_Never == FALSE
WmBaseArmGuard == base_surface # None /\ xdg_surface = None

\* if state.configured
ShmAttachGuard_Always == TRUE
ShmAttachGuard_Never == FALSE
ShmAttachGuard == configured

RegistryCompositor ==
  /\ CanDispatch
  /\ LET sid == Num("create_surface") + 1
         reqs == requests \o
           << [req |-> "bind", interface |-> "wl_compositor"],
              [req |-> "create_surface", id |-> sid] >>
         call == CompositorArmGuard
         r == init_xdg_surface(reqs, wm_base, Some(sid))
     IN /\ base_surface' = Some(sid)
        /\ requests' = IF call THEN r.requests ELSE reqs
        /\ xdg_surface' = IF call /\ ~r.panic THEN r.xdg_surface ELSE xdg_surface
        /\ Dispatched([obj |-> "wl_registry", ev |-> "Global",
                       interface |-> "wl_compositor"], call /\ r.panic)
  /\ UNCHANGED <<running, buffer, wm_base, configured, stdout, args, tmp, limit>>

\* (initial_width * initial_height * 4) as i32
PoolSize_NoBytesPerPixel(width, height) == I32(U32(width * height))
PoolSize(width, height) == I32(U32(U32(width * height) * 4))

\* (initial_width * 4) as i32
Stride(width) == I32(U32(width * 4))

RegistryShm ==
  /\ CanDispatch
  /\ LET bid == Num("create_buffer") + 1
         pid == Num("create_pool") + 1
         reqs == requests \o
           << [req |-> "bind", interface |-> "wl_shm"],
              [req |-> "create_pool", id |-> pid,
               fd_len |-> draw_len(initial_width, initial_height),
               size |-> PoolSize(initial_width, initial_height)],
              [req |-> "create_buffer", pool |-> pid, id |-> bid, offset |-> 0,
               width |-> I32(initial_width), height |-> I32(initial_height),
               stride |-> Stride(initial_width), format |-> "Argb8888"] >>
         panicked == ShmAttachGuard /\ base_surface = None
     IN /\ buffer' = Some(bid)
        /\ requests' =
             IF ShmAttachGuard /\ ~panicked
             THEN reqs \o
               << [req |-> "attach", surface |-> Unwrap(base_surface),
                   buffer |-> Some(bid), x |-> 0, y |-> 0],
                  [req |-> "commit", surface |-> Unwrap(base_surface)] >>
             ELSE reqs
        /\ Dispatched([obj |-> "wl_registry", ev |-> "Global",
                       interface |-> "wl_shm"], panicked)
  /\ UNCHANGED <<running, base_surface, wm_base, xdg_surface, configured,
                 stdout, args, tmp, limit>>

RegistrySeat ==
  /\ CanDispatch
  /\ requests' = Append(requests, [req |-> "bind", interface |-> "wl_seat"])
  /\ Dispatched([obj |-> "wl_registry", ev |-> "Global",
                 interface |-> "wl_seat"], FALSE)
  /\ UNCHANGED <<session, stdout, args, tmp, limit>>

RegistryWmBase ==
  /\ CanDispatch
  /\ LET wid == Cardinality(Binds(requests, "xdg_wm_base")) + 1
         reqs == Append(requests, [req |-> "bind", interface |-> "xdg_wm_base"])
         call == WmBaseArmGuard
         r == init_xdg_surface(reqs, Some(wid), base_surface)
     IN /\ wm_base' = Some(wid)
        /\ requests' = IF call THEN r.requests ELSE reqs
        /\ xdg_surface' = IF call /\ ~r.panic THEN r.xdg_surface ELSE xdg_surface
        /\ Dispatched([obj |-> "wl_registry", ev |-> "Global",
                       interface |-> "xdg_wm_base"], call /\ r.panic)
  /\ UNCHANGED <<running, base_surface, buffer, configured, stdout, args, tmp, limit>>

\* the `_ => {}` arm: an interface the client does not use
RegistryOtherGlobal_Binds ==
  /\ CanDispatch
  /\ requests' = Append(requests, [req |-> "bind", interface |-> "wl_output"])
  /\ Dispatched([obj |-> "wl_registry", ev |-> "Global",
                 interface |-> "wl_output"], FALSE)
  /\ UNCHANGED <<session, stdout, args, tmp, limit>>

RegistryOtherGlobal ==
  /\ CanDispatch
  /\ Dispatched([obj |-> "wl_registry", ev |-> "Global",
                 interface |-> "wl_output"], FALSE)
  /\ UNCHANGED <<session, requests, stdout, args, tmp, limit>>

\* a registry event that is not Global
RegistryGlobalRemove ==
  /\ CanDispatch
  /\ Dispatched([obj |-> "wl_registry", ev |-> "GlobalRemove"], FALSE)
  /\ UNCHANGED <<session, requests, stdout, args, tmp, limit>>

\* ------------------------------------------- Dispatch<XdgWmBase>::event
\* wm_base.pong(serial)
PongRequests_None(w, serial) == <<>>
PongRequests(w, serial) ==
  << [req |-> "pong", wm_base |-> w, serial |-> serial] >>

WmBasePing ==
  /\ CanDispatch
  /\ \E w \in WmBases, serial \in Serials :
       /\ requests' = requests \o PongRequests(w, serial)
       /\ Dispatched([obj |-> "xdg_wm_base", ev |-> "Ping", id |-> w,
                      serial |-> serial], FALSE)
  /\ UNCHANGED <<session, stdout, args, tmp, limit>>

\* ------------------------------------------ Dispatch<XdgSurface>::event
\* surface_xdg.ack_configure(serial)
AckRequests_FirstOnly(xs, serial) ==
  IF configured THEN <<>>
  ELSE << [req |-> "ack_configure", xdg_surface |-> xs, serial |-> serial] >>
AckRequests(xs, serial) ==
  << [req |-> "ack_configure", xdg_surface |-> xs, serial |-> serial] >>

\* state.configured = true
ConfiguredAfterConfigure_Toggle == ~configured
ConfiguredAfterConfigure == TRUE

\* if let Some(ref buffer) = state.buffer
ConfigureAttachGuard_Never == FALSE
ConfigureAttachGuard == buffer # None

XdgSurfaceConfigure ==
  /\ CanDispatch
  /\ \E xs \in XdgSurfaces, serial \in Serials :
       LET reqs == requests \o AckRequests(xs, serial)
           panicked == base_surface = None
       IN /\ configured' = ConfiguredAfterConfigure
          /\ requests' =
               IF ~panicked /\ ConfigureAttachGuard
               THEN reqs \o
                 << [req |-> "attach", surface |-> Unwrap(base_surface),
                     buffer |-> buffer, x |-> 0, y |-> 0],
                    [req |-> "commit", surface |-> Unwrap(base_surface)] >>
               ELSE reqs
          /\ Dispatched([obj |-> "xdg_surface", ev |-> "Configure", id |-> xs,
                         serial |-> serial], panicked)
  /\ UNCHANGED <<running, base_surface, buffer, wm_base, xdg_surface,
                 stdout, args, tmp, limit>>

\* ------------------------------------------ Dispatch<XdgToplevel>::event
ToplevelClose_Ignored ==
  /\ CanDispatch
  /\ \E t \in Toplevels :
       Dispatched([obj |-> "xdg_toplevel", ev |-> "Close", id |-> t], FALSE)
  /\ UNCHANGED <<session, requests, stdout, args, tmp, limit>>

ToplevelClose ==
  /\ CanDispatch
  /\ \E t \in Toplevels :
       Dispatched([obj |-> "xdg_toplevel", ev |-> "Close", id |-> t], FALSE)
  /\ running' = FALSE
  /\ UNCHANGED <<base_surface, buffer, wm_base, xdg_surface, configured,
                 requests, stdout, args, tmp, limit>>

\* a toplevel event that is not Close (the toplevel's own Configure)
ToplevelOther ==
  /\ CanDispatch
  /\ \E t \in Toplevels :
       Dispatched([obj |-> "xdg_toplevel", ev |-> "Configure", id |-> t], FALSE)
  /\ UNCHANGED <<session, requests, stdout, args, tmp, limit>>

\* ------------------------------------------------ Dispatch<WlSeat>::event
\* caps: "keyboard" = WEnum::Value containing Keyboard, "pointer" =
\* WEnum::Value without it, "unknown" = WEnum::Unknown
\* capabilities: WEnum::Value(capabilities), then
\* capabilities.contains(wl_seat::Capability::Keyboard)
HasKeyboard_AnyValue(caps) == caps # "unknown"
HasKeyboard(caps) == caps = "keyboard"

SeatCapabilities ==
  /\ CanDispatch
  /\ \E s \in Seats, caps \in {"keyboard", "pointer", "unknown"} :
       /\ requests' =
            IF HasKeyboard(caps)
            THEN Append(requests, [req |-> "get_keyboard", seat |-> s])
            ELSE requests
       /\ Dispatched([obj |-> "wl_seat", ev |-> "Capabilities", id |-> s,
                      capabilities |-> caps], FALSE)
  /\ UNCHANGED <<session, stdout, args, tmp, limit>>

\* a seat event that is not Capabilities
SeatName ==
  /\ CanDispatch
  /\ \E s \in Seats :
       Dispatched([obj |-> "wl_seat", ev |-> "Name", id |-> s], FALSE)
  /\ UNCHANGED <<session, requests, stdout, args, tmp, limit>>

\* -------------------------------------------- Dispatch<WlKeyboard>::event
\* if key == 1
IsQuit_AnyKey(key) == key >= QuitKey
IsQuit(key) == key = QuitKey

KeyboardKey ==
  /\ CanDispatch
  /\ \E k \in Keyboards, key \in Keys :
       /\ stdout' = Append(stdout, key)
       /\ running' = IF IsQuit(key) THEN FALSE ELSE running
       /\ Dispatched([obj |-> "wl_keyboard", ev |-> "Key", id |-> k,
                      key |-> key], FALSE)
  /\ UNCHANGED <<base_surface, buffer, wm_base, xdg_surface, configured,
                 requests, args, tmp, limit>>

\* a keyboard event that is not Key
KeyboardOther ==
  /\ CanDispatch
  /\ \E k \in Keyboards :
       Dispatched([obj |-> "wl_keyboard", ev |-> "Keymap", id |-> k], FALSE)
  /\ UNCHANGED <<session, requests, stdout, args, tmp, limit>>

Next ==
  \/ LoopEnter
  \/ LoopExit
  \/ RegistryCompositor
  \/ RegistryShm
  \/ RegistrySeat
  \/ RegistryWmBase
  \/ RegistryOtherGlobal
  \/ RegistryGlobalRemove
  \/ WmBasePing
  \/ XdgSurfaceConfigure
  \/ ToplevelClose
  \/ ToplevelOther
  \/ SeatCapabilities
  \/ SeatName
  \/ KeyboardKey
  \/ KeyboardOther

Spec == Init /\ [][Next]_vars

\* ------------------------------------------------- draw on its own
InitDraw ==
  /\ running = TRUE
  /\ base_surface = None
  /\ buffer = None
  /\ wm_base = None
  /\ xdg_surface = None
  /\ configured = FALSE
  /\ pc = "draw"
  /\ requests = <<>>
  /\ hist = <<>>
  /\ stdout = <<>>
  /\ args \in Dims \X Dims
  /\ tmp = <<>>
  /\ limit = MaxEvents

DrawCall ==
  /\ pc = "draw"
  /\ tmp' = draw(tmp, args[1], args[2])
  /\ pc' = "drawn"
  /\ UNCHANGED <<session, requests, hist, stdout, args, limit>>

NextDraw == DrawCall

SpecDraw == InitDraw /\ [][NextDraw]_vars

\* ------------------------------------------- the loop under fair dispatch
InitLive ==
  /\ running = TRUE
  /\ base_surface = None
  /\ buffer = None
  /\ wm_base = None
  /\ xdg_surface = None
  /\ configured = FALSE
  /\ pc = "check"
  /\ requests = << [req |-> "get_registry"] >>
  /\ hist = <<>>
  /\ stdout = <<>>
  /\ args = <<0, 0>>
  /\ tmp = <<>>
  /\ limit = MaxLiveEvents

\* Once running is FALSE the client is either inside blocking_dispatch with
\* events still buffered, whose handlers do not block, or at the loop's
\* check: both go on.  While running is TRUE the client may wait for the
\* server for ever.
Drain == ~running /\ Next

SpecLive == InitLive /\ [][Next]_vars /\ WF_vars(Drain)

TypeOK ==
  /\ running \in BOOLEAN
  /\ configured \in BOOLEAN
  /\ pc \in {"check", "dispatch", "done", "panic", "draw", "drawn"}
  /\ Len(hist) <= limit

\* ------------------------------------------------------------ properties
IsEv(e, obj, ev) == e.obj = obj /\ e.ev = ev
IsGlobal(e, iface) == IsEv(e, "wl_registry", "Global") /\ e.interface = iface
IsConfigure(e) == IsEv(e, "xdg_surface", "Configure")
EvIdx(obj, ev) == {k \in 1..Len(hist) : IsEv(hist[k], obj, ev)}
GlobalIdx(iface) == {k \in 1..Len(hist) : IsGlobal(hist[k], iface)}
\* the step is a handler run; Handled is the event it was given
Fired == Len(hist') = Len(hist) + 1
Handled == hist'[Len(hist')]

\* C1: whatever the arrival order of wl_compositor and xdg_wm_base, the role
\* pair is created exactly once, as soon as and only after both have arrived,
\* with both session slots filled, and the commit of role creation is made on
\* a surface no buffer was attached to.
C1_RoleCreatedOnce ==
  /\ Num("get_xdg_surface") =
       (IF GlobalIdx("wl_compositor") # {} /\ GlobalIdx("xdg_wm_base") # {}
        THEN 1 ELSE 0)
  /\ Num("get_toplevel") = Num("get_xdg_surface")
  /\ IsSome(xdg_surface) <=> Num("get_xdg_surface") = 1
  /\ IsSome(xdg_surface) => IsSome(base_surface) /\ IsSome(wm_base)
  /\ \A i \in Idx("get_xdg_surface") :
       /\ \E j \in Binds(requests, "wl_compositor") : j < i
       /\ \E j \in Binds(requests, "xdg_wm_base") : j < i
       /\ requests[i + 4].req = "commit"
       /\ requests[i + 4].surface = requests[i].surface
       /\ \A j \in 1..(i + 4) :
            requests[j].req = "attach" => requests[j].surface # requests[i].surface

\* the role exists, xdg_wm_base came first, and something else came in between
C1_Witness ==
  /\ IsSome(xdg_surface)
  /\ \E a, b, c \in 1..Len(hist) :
       /\ a < b /\ b < c
       /\ IsGlobal(hist[a], "xdg_wm_base")
       /\ IsGlobal(hist[b], "wl_shm")
       /\ IsGlobal(hist[c], "wl_compositor")

\* number of handler runs that found the other half ready: a Configure with a
\* wl_shm advertisement before it, a wl_shm advertisement with a Configure
\* before it
ReadyRuns ==
  Cardinality({k \in EvIdx("xdg_surface", "Configure") :
                 \E j \in GlobalIdx("wl_shm") : j < k})
  + Cardinality({k \in GlobalIdx("wl_shm") :
                 \E j \in EvIdx("xdg_surface", "Configure") : j < k})

\* C2 as stated: attach+commit runs exactly once over the run, only after the
\* buffer exists and a configure was received.
\* (Read for a run with one buffer-ready event, the case the claim is about.)
C2_AttachExactlyOnce ==
  Cardinality(GlobalIdx("wl_shm")) <= 1 =>
    /\ Num("attach") <= 1
    /\ Num("attach") = 1 <=> (buffer # None /\ configured)

\* C2 amended: no attach before both the buffer exists and a configure was
\* received; attach-at-(0,0)-then-commit runs once in the handler that makes
\* both hold and once more in every later Configure or wl_shm handler.
C2_AttachOncePerReadyRun ==
  /\ Num("attach") = ReadyRuns
  /\ Num("attach") >= 1 <=> (buffer # None /\ configured)
  /\ \A i \in Idx("attach") :
       /\ requests[i].x = 0 /\ requests[i].y = 0
       /\ i < Len(requests)
       /\ requests[i + 1].req = "commit"
       /\ requests[i + 1].surface = requests[i].surface

\* the buffer came before the first configure and a second configure followed
C2_Witness ==
  /\ Num("attach") = 2
  /\ Cardinality(EvIdx("xdg_surface", "Configure")) = 2
  /\ Cardinality(GlobalIdx("wl_shm")) = 1

\* C3: no attach carrying a buffer is issued unless an ack_configure was
\* issued earlier in the run.
C3_NoAttachBeforeAck ==
  \A i \in Idx("attach") :
    requests[i].buffer # None => \E j \in Idx("ack_configure") : j < i

\* an attach issued by the wl_shm arm, after two wl_shm advertisements
C3_Witness ==
  /\ Cardinality(GlobalIdx("wl_shm")) = 2
  /\ Num("attach") >= 1
  /\ hist # <<>> /\ IsGlobal(hist[Len(hist)], "wl_shm")
  /\ requests[Len(requests) - 1].req = "attach"

ConfigureEvents == SelectSeq(hist, IsConfigure)
IsAck(r) == r.req = "ack_configure"
Acks == SelectSeq(requests, IsAck)

\* C4: every Configure is answered by exactly one ack_configure with the serial
\* of that event, on the xdg_surface that received it: the acks sent are the
\* configures received, in order.
C4_AckEchoesSerial ==
  /\ Len(Acks) = Len(ConfigureEvents)
  /\ \A k \in 1..Len(Acks) :
       /\ Acks[k].serial = ConfigureEvents[k].serial
       /\ Acks[k].xdg_surface = ConfigureEvents[k].id

\* two configures with different serials were handled
C4_Witness ==
  /\ Len(ConfigureEvents) = 2
  /\ ConfigureEvents[1].serial # ConfigureEvents[2].serial
  /\ Len(Acks) = 2

\* C5: a Ping is answered inside its handler by exactly one pong with the same
\* serial; the handler changes no session field and issues nothing else.
C5_PingPong ==
  [][(Fired /\ IsEv(Handled, "xdg_wm_base", "Ping")) =>
       /\ requests' = Append(requests,
            [req |-> "pong", wm_base |-> Handled.id, serial |-> Handled.serial])
       /\ UNCHANGED <<session, stdout>>]_vars

\* a ping was just handled and its pong is the last request
C5_Witness ==
  /\ hist # <<>>
  /\ IsEv(hist[Len(hist)], "xdg_wm_base", "Ping")
  /\ requests[Len(requests)].req = "pong"
  /\ requests[Len(requests)].serial = hist[Len(hist)].serial

CloseHandled == EvIdx("xdg_toplevel", "Close") # {}

\* C6 as stated: Close sets running to FALSE, the loop exits at its next check,
\* and from the moment the Close is handled no request is issued any more.
C6_NoRequestAfterClose ==
  [][/\ (Fired /\ IsEv(Handled, "xdg_toplevel", "Close")) => ~running'
     /\ (pc = "check" /\ ~running) => pc' = "done"
     /\ CloseHandled => requests' = requests]_vars

\* C6 amended: Close sets running to FALSE and running stays FALSE; the loop
\* exits at its next check of running, which comes when blocking_dispatch has
\* handled the events still buffered with the Close; those handlers issue their
\* requests as usual; from that check on no event is handled and no request is
\* issued.
C6_CloseStopsLoopAtNextCheck ==
  [][/\ (Fired /\ IsEv(Handled, "xdg_toplevel", "Close")) =>
          ~running' /\ requests' = requests
     /\ ~running => ~running'
     /\ (pc = "check" /\ ~running) => pc' = "done"
     /\ (~running /\ pc \in {"check", "done"}) =>
          requests' = requests /\ hist' = hist]_vars

\* the loop has exited after a Close that was followed, in the same
\* dispatch, by a Ping that was answered
C6_Witness ==
  /\ pc = "done"
  /\ \E k \in EvIdx("xdg_toplevel", "Close") :
       /\ k < Len(hist)
       /\ IsEv(hist[k + 1], "xdg_wm_base", "Ping")
  /\ requests[Len(requests)].req = "pong"

\* C7: a Key event with the quit code sets running to FALSE; a Key event with
\* another code appends its report to the output and changes no session field
\* and issues no request.
C7_KeyQuit ==
  [][(Fired /\ IsEv(Handled, "wl_keyboard", "Key")) =>
       /\ stdout' = Append(stdout, Handled.key)
       /\ requests' = requests
       /\ Handled.key = QuitKey => ~running'
       /\ Handled.key # QuitKey => UNCHANGED session]_vars

\* a key other than the quit key was handled and the client still runs
C7_Witness ==
  /\ hist # <<>>
  /\ IsEv(hist[Len(hist)], "wl_keyboard", "Key")
  /\ hist[Len(hist)].key # QuitKey
  /\ running
  /\ stdout # <<>>

Scenario == <<"wl_seat", "wl_shm", "wl_compositor", "xdg_wm_base">>
InScenario ==
  /\ Len(hist) >= 4
  /\ \A k \in 1..4 : IsGlobal(hist[k], Scenario[k])

\* C8: after the advertisements [wl_seat, wl_shm, wl_compositor, xdg_wm_base]
\* no keyboard is bound, the buffer was created before the role, the role is
\* created in the xdg_wm_base handler, no attach was issued; afterwards an
\* attach+commit is issued exactly when a Configure is received.
C8_Scenario ==
  InScenario =>
    /\ IsSome(buffer) /\ IsSome(xdg_surface)
    /\ \A i \in Idx("get_xdg_surface") :
         /\ \E j \in Idx("create_buffer") : j < i
         /\ requests[i - 1].req = "bind"
         /\ requests[i - 1].interface = "xdg_wm_base"
    /\ Len(hist) = 4 => Num("get_keyboard") = 0 /\ Num("attach") = 0
    /\ Num("attach") >= 1 <=> EvIdx("xdg_surface", "Configure") # {}
    /\ \A i \in Idx("attach") :
         /\ \E j \in Idx("ack_configure") : j < i
         /\ requests[i + 1].req = "commit"

\* the scenario followed by a Configure, which issued the deferred attach
C8_Witness ==
  /\ InScenario
  /\ Len(hist) = 5
  /\ IsConfigure(hist[5])
  /\ Num("attach") = 1
  /\ requests[Len(requests)].req = "commit"

\* C9: draw writes exactly 4*width*height bytes, B,G,R,A per pixel, row by row.
C9_DrawLayout ==
  pc = "drawn" =>
    LET w == args[1]
        h == args[2]
    IN /\ Len(tmp) = 4 * w * h
       /\ \A y \in 0..(h - 1) : \A x \in 0..(w - 1) :
            LET o == 4 * (y * w + x)
                fromRight == ((w - x) * 255) \div w
                fromLeft == (x * 255) \div w
                fromBottom == ((h - y) * 255) \div h
                fromTop == (y * 255) \div h
            IN /\ tmp[o + 1] = Min(fromRight, fromTop)
               /\ tmp[o + 2] = Min(fromLeft, fromBottom)
               /\ tmp[o + 3] = Min(fromRight, fromBottom)
               /\ tmp[o + 4] = 255
       /\ \A i \in 1..Len(tmp) : tmp[i] \in 0..255

\* a picture of more than one row and column was drawn
C9_Witness ==
  /\ pc = "drawn"
  /\ args[1] >= 2 /\ args[2] >= 3
  /\ Len(tmp) = 4 * args[1] * args[2]

\* nothing is written for an empty picture
C9_WitnessEmpty ==
  /\ pc = "drawn"
  /\ args[1] = 0
  /\ tmp = <<>>

Recognized == {"wl_compositor", "wl_shm", "wl_seat", "xdg_wm_base"}

\* C10: a Global of an interface outside the four, and a registry event that
\* is not Global, issue no request and change no session field.
C10_OtherGlobalIgnored ==
  [][(/\ Fired
      /\ Handled.obj = "wl_registry"
      /\ (Handled.ev = "Global" => Handled.interface \notin Recognized)) =>
       UNCHANGED <<session, requests, stdout>>]_vars

\* an unused global was advertised between two used ones
C10_Witness ==
  \E k \in 2..Len(hist) :
    /\ IsGlobal(hist[k], "wl_output")
    /\ IsGlobal(hist[k - 1], "wl_compositor")
    /\ k < Len(hist)
    /\ IsGlobal(hist[k + 1], "xdg_wm_base")
    /\ IsSome(xdg_surface)

\* C11: get_keyboard is issued only by the handler of a Capabilities event
\* whose value is recognized and contains the keyboard class, once, on the seat
\* of the event; the wl_seat advertisement only binds the seat; a Capabilities
\* event without the keyboard class, or with an unrecognized value, issues no
\* request; none of them changes the session.
C11_KeyboardOnlyOnCapability ==
  [][/\ Num("get_keyboard")' # Num("get_keyboard") =>
          /\ Fired
          /\ IsEv(Handled, "wl_seat", "Capabilities")
          /\ Handled.capabilities = "keyboard"
     /\ (Fired /\ IsGlobal(Handled, "wl_seat")) =>
          /\ requests' = Append(requests, [req |-> "bind", interface |-> "wl_seat"])
          /\ UNCHANGED <<session, stdout>>
     /\ (Fired /\ IsEv(Handled, "wl_seat", "Capabilities")) =>
          /\ UNCHANGED <<session, stdout>>
          /\ pc' # "panic"
          /\ requests' =
               IF Handled.capabilities = "keyboard"
               THEN Append(requests, [req |-> "get_keyboard", seat |-> Handled.id])
               ELSE requests]_vars

\* a seat sent an unrecognized value, then one without and one with the
\* keyboard class, and only the last one gave a keyboard
C11_Witness ==
  /\ Len(hist) >= 4
  /\ IsGlobal(hist[1], "wl_seat")
  /\ IsEv(hist[2], "wl_seat", "Capabilities") /\ hist[2].capabilities = "unknown"
  /\ IsEv(hist[3], "wl_seat", "Capabilities") /\ hist[3].capabilities = "pointer"
  /\ IsEv(hist[4], "wl_seat", "Capabilities") /\ hist[4].capabilities = "keyboard"
  /\ Num("get_keyboard") = 1

TerminationHandled ==
  \E k \in 1..Len(hist) :
    \/ IsEv(hist[k], "xdg_toplevel", "Close")
    \/ IsEv(hist[k], "wl_keyboard", "Key") /\ hist[k].key = QuitKey

\* C12: the loop ends only with running FALSE, running is FALSE exactly when a
\* Close or a Key with the quit code was handled, so without such an event the
\* loop never ends; once such an event is handled the loop ends.
C12_LoopExitsOnRunning ==
  /\ [](pc = "done" => ~running)
  /\ [](~running <=> TerminationHandled)
  /\ [](pc \in {"check", "dispatch", "done"})
  /\ (TerminationHandled ~> pc = "done")

\* the loop has ended after a quit key
C12_Witness ==
  /\ pc = "done"
  /\ hist # <<>>
  /\ IsEv(hist[Len(hist)], "wl_keyboard", "Key")
  /\ hist[Len(hist)].key = QuitKey

\* the client is blocked in blocking_dispatch for good, still running
C12_WitnessBlocked ==
  /\ pc = "dispatch"
  /\ running
  /\ Len(hist) = limit

\* C13: after every handler the role is Some exactly when base_surface and
\* wm_base are both Some, so it is created in the handler that brings the
\* second of them and never without one; once Some it is never replaced or
\* cleared, and no second role is requested.
C13_RoleIffPrerequisites ==
  /\ [](IsSome(xdg_surface) <=> (IsSome(base_surface) /\ IsSome(wm_base)))
  /\ [][IsSome(xdg_surface) =>
          /\ xdg_surface' = xdg_surface
          /\ Num("get_xdg_surface")' = Num("get_xdg_surface")
          /\ Num("get_toplevel")' = Num("get_toplevel")]_vars

\* the role exists and both globals were advertised again after it
C13_Witness ==
  /\ IsSome(xdg_surface)
  /\ \E a, b, c, d \in 1..Len(hist) :
       /\ a < b /\ b < c /\ c < d
       /\ IsGlobal(hist[a], "xdg_wm_base")
       /\ IsGlobal(hist[b], "wl_compositor")
       /\ IsGlobal(hist[c], "wl_compositor")
       /\ IsGlobal(hist[d], "xdg_wm_base")
  /\ Num("get_xdg_surface") = 1

\* C14: configured never goes back to FALSE; a Configure received while
\* configured is TRUE acknowledges, attaches and commits if a buffer exists,
\* and leaves every session field as it was.
C14_ConfiguredIsTerminal ==
  [][/\ configured => configured'
     /\ (Fired /\ IsConfigure(Handled) /\ configured) =>
          /\ UNCHANGED <<session, stdout>>
          /\ requests' = requests
               \o << [req |-> "ack_configure", xdg_surface |-> Handled.id,
                      serial |-> Handled.serial] >>
               \o (IF IsSome(buffer)
                   THEN << [req |-> "attach", surface |-> Unwrap(base_surface),
                            buffer |-> buffer, x |-> 0, y |-> 0],
                           [req |-> "commit", surface |-> Unwrap(base_surface)] >>
                   ELSE <<>>)]_vars

\* a second Configure was handled, with a buffer and without one before it
C14_Witness ==
  /\ configured
  /\ Len(ConfigureEvents) = 2
  /\ hist # <<>> /\ IsConfigure(hist[Len(hist)])
  /\ IsSome(buffer)
  /\ Num("attach") = 2

C14_WitnessNoBuffer ==
  /\ configured
  /\ Len(ConfigureEvents) = 2
  /\ hist # <<>> /\ IsConfigure(hist[Len(hist)])
  /\ buffer = None

HandshakeEventsHandled ==
  /\ GlobalIdx("wl_compositor") # {}
  /\ GlobalIdx("xdg_wm_base") # {}
  /\ GlobalIdx("wl_shm") # {}
  /\ EvIdx("xdg_surface", "Configure") # {}

\* C15: in whatever order wl_compositor, xdg_wm_base and wl_shm were
\* advertised, once all three and a Configure have been handled the client has
\* attached the buffer to its base surface and committed it (the handler of the
\* last of them does it, so nothing further has to happen); when wl_compositor
\* was advertised once, that surface is the one that carries the role.
C15_HandshakeCompletes ==
  HandshakeEventsHandled =>
    /\ \E i \in Idx("attach") :
         /\ IsSome(requests[i].buffer)
         /\ requests[i + 1].req = "commit"
         /\ requests[i + 1].surface = requests[i].surface
         /\ \E j \in Idx("create_surface") :
              j < i /\ requests[j].id = requests[i].surface
    /\ Cardinality(GlobalIdx("wl_compositor")) = 1 =>
         \A i \in Idx("attach") : \E j \in Idx("get_xdg_surface") :
           requests[j].surface = requests[i].surface

\* the buffer came last: Configure was handled before wl_shm was advertised
C15_Witness ==
  /\ HandshakeEventsHandled
  /\ Len(hist) = 4
  /\ IsGlobal(hist[1], "xdg_wm_base")
  /\ IsGlobal(hist[2], "wl_compositor")
  /\ IsConfigure(hist[3])
  /\ IsGlobal(hist[4], "wl_shm")
  /\ Num("attach") = 1

\* C16: the pool is created with size width*height*4, the number of bytes draw
\* wrote to the file behind it; the buffer is created at offset 0 with stride
\* width*4 and fits in its pool; for 320x240 the products stay within u32 and
\* the casts to i32 keep their value.  (The byte count of draw is compared
\* with the output of draw for every width and height up to MaxDim.)
C16_PoolMatchesFile ==
  /\ hist = <<>> =>
       \A w \in Dims : \A h \in Dims :
         Len(draw(<<>>, w, h)) = draw_len(w, h)
  /\ initial_width <= (I32Max \div 4) \div initial_height
  /\ \A i \in Idx("create_pool") :
       /\ requests[i].size = initial_width * initial_height * 4
       /\ requests[i].size = requests[i].fd_len
  /\ \A i \in Idx("create_buffer") :
       /\ requests[i].offset = 0
       /\ requests[i].width = initial_width
       /\ requests[i].height = initial_height
       /\ requests[i].stride = initial_width * 4
       /\ i > 1
       /\ requests[i - 1].req = "create_pool"
       /\ requests[i - 1].id = requests[i].pool
       /\ requests[i].offset + requests[i].stride * requests[i].height
            <= requests[i - 1].size

\* wl_shm was advertised and the pool and the buffer were created
C16_Witness ==
  /\ hist # <<>>
  /\ IsGlobal(hist[Len(hist)], "wl_shm")
  /\ Num("create_pool") = 1
  /\ Num("create_buffer") = 1
  /\ IsSome(buffer)

KeyboardsOf(seat) ==
  {i \in Idx("get_keyboard") : requests[i].seat = seat}

\* C17: whatever Capabilities events a seat sends, at most one keyboard is
\* requested from it.
C17_AtMostOneKeyboardPerSeat ==
  \A seat \in Seats : Cardinality(KeyboardsOf(seat)) <= 1

\* C18: no unwrap meets an empty slot: no handler panics; configured implies
\* base_surface (and the role) is Some; every Configure handled came after the
\* role was created; init_xdg_surface was given a surface and a wm_base that
\* exist.
C18_NoUnwrapOfNone ==
  /\ pc # "panic"
  /\ configured => IsSome(base_surface) /\ IsSome(xdg_surface)
  /\ \A i \in Idx("ack_configure") : \E j \in Idx("get_xdg_surface") :
       j < i /\ requests[j].id = requests[i].xdg_surface
  /\ \A i \in Idx("get_xdg_surface") :
       /\ \E j \in Idx("create_surface") :
            j < i /\ requests[j].id = requests[i].surface
       /\ requests[i].wm_base \in
            1..Cardinality({j \in Binds(requests, "xdg_wm_base") : j < i})

\* both unwraps of base_surface ran: a Configure, then a wl_shm advertisement
\* that found configured TRUE
C18_Witness ==
  /\ Len(hist) >= 2
  /\ IsGlobal(hist[Len(hist)], "wl_shm")
  /\ IsConfigure(hist[Len(hist) - 1])
  /\ configured
  /\ requests[Len(requests) - 1].req = "attach"

\* C19: every attach of the buffer is made on the surface that was given to
\* get_xdg_surface, also after several wl_compositor or wl_shm advertisements.
C19_AttachOnRoleSurface ==
  \A i \in Idx("attach") : \E j \in Idx("get_xdg_surface") :
    /\ j < i
    /\ requests[j].surface = requests[i].surface

\* the requests the step has added to the log
Issued == SubSeq(requests', Len(requests) + 1, Len(requests'))

\* C20: the Configure handler issues ack_configure(serial) first and only then
\* an attach and a commit; every attach of the buffer is directly followed by a
\* commit of the same surface, in the same handler; role creation issues
\* get_xdg_surface, get_toplevel, set_title, set_app_id and then the commit.
C20_RequestOrder ==
  /\ [][(Fired /\ IsConfigure(Handled)) =>
          /\ Issued # <<>>
          /\ Issued[1].req = "ack_configure"
          /\ Issued[1].serial = Handled.serial
          /\ \A k \in 2..Len(Issued) : Issued[k].req \in {"attach", "commit"}]_vars
  /\ [][Fired =>
          \A k \in 1..Len(Issued) :
            Issued[k].req = "attach" =>
              /\ k < Len(Issued)
              /\ Issued[k + 1].req = "commit"
              /\ Issued[k + 1].surface = Issued[k].surface]_vars
  /\ [][Len(requests') >= Len(requests)]_vars
  /\ [](\A i \in Idx("get_xdg_surface") :
          /\ i + 4 <= Len(requests)
          /\ requests[i + 1].req = "get_toplevel"
          /\ requests[i + 1].xdg_surface = requests[i].id
          /\ requests[i + 2].req = "set_title"
          /\ requests[i + 2].toplevel = requests[i + 1].id
          /\ requests[i + 3].req = "set_app_id"
          /\ requests[i + 3].toplevel = requests[i + 1].id
          /\ requests[i + 4].req = "commit"
          /\ requests[i + 4].surface = requests[i].surface)

\* a role was created and a Configure handler acknowledged, attached and
\* committed
C20_Witness ==
  /\ Num("get_xdg_surface") = 1
  /\ Len(requests) >= 3
  /\ requests[Len(requests) - 2].req = "ack_configure"
  /\ requests[Len(requests) - 1].req = "attach"
  /\ requests[Len(requests)].req = "commit"
====
